---- MODULE Spec2Model ----
(***************************************************************************)
(* Proton API (src/main.py): bearer-token authentication, signup/login and *)
(* the role-gated endpoints over the document store.                       *)
(*                                                                         *)
(* Conventions.  A Python str that the code lower-cases or partitions is a *)
(* sequence of one-character strings.  Optional[x] is a sequence of length *)
(* 0 (None) or 1.  Time is counted in minutes since the process started.   *)
(* A collection is the sequence of its documents in natural order.        *)
(***************************************************************************)
EXTENDS Integers, Sequences, FiniteSets, TLC

VARIABLES
    user,               \* db["user"]
    productlisting,     \* db["productlisting"]
    buyerrequirement,   \* db["buyerrequirement"]
    investmentproject,  \* db["investmentproject"]
    transaction,        \* db["transaction"]
    joblisting,         \* db["joblisting"]
    jobapplication,     \* db["jobapplication"]
    now,                \* datetime.now(timezone.utc), in minutes
    pending,            \* signup requests between their find_one and their insert_one
    resp                \* the response of the latest request

store == <<user, productlisting, buyerrequirement, investmentproject,
           transaction, joblisting, jobapplication>>
vars == <<user, productlisting, buyerrequirement, investmentproject,
          transaction, joblisting, jobapplication, now, pending, resp>>

----------------------------------------------------------------------------
(* Bounds of the model *)

MaxUsers == 2       \* user records
MaxDocs == 2        \* documents over the six non-user collections
MaxTicks == 3       \* steps of the clock
NumProcs == 2       \* signup requests in flight

----------------------------------------------------------------------------
(* Values *)

None == <<>>
Some(x) == <<x>>

\* schemas.py: Role
Role == {"vendor", "buyer", "investor", "employee", "admin"}
\* SignupRequest.role is a plain str: a request may carry any string
RoleStrings == Role \cup {"root"}

JWT_SECRET == "dev_secret_change_me"
OtherSecret == "not_the_secret"

\* default of create_token's expires_minutes
EXPIRES_MINUTES == 60

\* str.lower() on the characters the model uses
LowerChar(c) ==
    CASE c = "A" -> "a"
      [] c = "B" -> "b"
      [] c = "E" -> "e"
      [] c = "R" -> "r"
      [] c = "X" -> "x"
      [] OTHER -> c

RECURSIVE Lower(_)
Lower(s) == IF s = <<>> THEN <<>> ELSE <<LowerChar(Head(s))>> \o Lower(Tail(s))

Passwords == {"pw1", "pw2"}

\* passlib bcrypt: the digest determines the password, never equals it
hash_password(pw) == <<"$2b$", pw>>
verify_password(pw, hashed) == hashed = <<"$2b$", pw>>

\* bson ObjectId, numbered in the order the store makes them
ObjectId(n) == <<"ObjectId", n>>

\* str(x): the hex string of an ObjectId, a str as it is
Str(x) == IF x[1] = "ObjectId" THEN <<"str", x[2]>> ELSE x

----------------------------------------------------------------------------
(* Token codec *)

\* jwt.encode of the claims under a key; create_token, main.py 38-42
Encode(claims, key) ==
    [sub |-> claims.sub, role |-> claims.role, exp |-> claims.exp, key |-> key]

create_token(data, t) ==
    Encode([sub |-> data.sub, role |-> data.role, exp |-> t + EXPIRES_MINUTES], JWT_SECRET)

decode_token_noexp(token, t) ==
    IF Len(token) # 1 \/ token[1].key # JWT_SECRET
        THEN [status |-> 401, detail |-> "Invalid token", payload |-> None]
    ELSE [status |-> 200, detail |-> "",
          payload |-> Some([sub |-> token[1].sub, role |-> token[1].role, exp |-> token[1].exp])]

\* jwt.decode: the signature is verified before the exp claim is
decode_token(token, t) ==
    IF Len(token) # 1 \/ token[1].key # JWT_SECRET
        THEN [status |-> 401, detail |-> "Invalid token", payload |-> None]
    ELSE IF token[1].exp <= t
        THEN [status |-> 401, detail |-> "Token expired", payload |-> None]
    ELSE [status |-> 200, detail |-> "",
          payload |-> Some([sub |-> token[1].sub, role |-> token[1].role, exp |-> token[1].exp])]

----------------------------------------------------------------------------
(* Store access *)

Matching(coll, email) == { i \in 1..Len(coll) : coll[i].email = email }

Min(S) == CHOOSE x \in S : \A y \in S : x <= y

\* Collection.find_one({"email": email}): the first match in natural order, a copy
FindOne(coll, email) ==
    IF Matching(coll, email) = {} THEN None ELSE Some(coll[Min(Matching(coll, email))])

\* Collection.insert_one: appends, the store assigns _id
InsertOne(coll, doc) == Append(coll, [doc EXCEPT !._id = ObjectId(Len(coll) + 1)])

\* the sanitized copy handed to clients and handlers
Sanitize(u) == [u EXCEPT !._id = Str(u._id), !.password_hash = None]

----------------------------------------------------------------------------
(* Session resolver *)

\* str.partition(" "): the header is the sequence of its space-separated parts
Partition(h) ==
    IF h = <<>> THEN [scheme |-> <<>>, token |-> <<>>]
    ELSE [scheme |-> Head(h), token |-> Tail(h)]

Bearer == <<"b", "e", "a", "r", "e", "r">>

\* the scheme compared as sent
get_current_user_case_sensitive(authorization, coll, t) ==
    IF authorization = None \/ authorization[1] = <<>>
        THEN [status |-> 401, detail |-> "Missing Authorization header", user |-> None, coll |-> coll]
    ELSE LET parts == Partition(authorization[1])
             dec == decode_token(parts.token, t)
         IN  IF parts.scheme # Bearer \/ parts.token = <<>>
                 THEN [status |-> 401, detail |-> "Invalid auth header", user |-> None, coll |-> coll]
             ELSE IF dec.status # 200
                 THEN [status |-> dec.status, detail |-> dec.detail, user |-> None, coll |-> coll]
             ELSE LET found == FindOne(coll, dec.payload[1].sub)
                  IN  IF found = None
                          THEN [status |-> 401, detail |-> "User not found", user |-> None, coll |-> coll]
                      ELSE [status |-> 200, detail |-> "", user |-> Some(Sanitize(found[1])), coll |-> coll]

\* the sanitizing writes land in the stored record
get_current_user_in_place(authorization, coll, t) ==
    IF authorization = None \/ authorization[1] = <<>>
        THEN [status |-> 401, detail |-> "Missing Authorization header", user |-> None, coll |-> coll]
    ELSE LET parts == Partition(authorization[1])
             dec == decode_token(parts.token, t)
         IN  IF Lower(parts.scheme) # Bearer \/ parts.token = <<>>
                 THEN [status |-> 401, detail |-> "Invalid auth header", user |-> None, coll |-> coll]
             ELSE IF dec.status # 200
                 THEN [status |-> dec.status, detail |-> dec.detail, user |-> None, coll |-> coll]
             ELSE LET found == FindOne(coll, dec.payload[1].sub)
                  IN  IF found = None
                          THEN [status |-> 401, detail |-> "User not found", user |-> None, coll |-> coll]
                      ELSE [status |-> 200, detail |-> "", user |-> Some(Sanitize(found[1])),
                            coll |-> [coll EXCEPT ![Min(Matching(coll, dec.payload[1].sub))] =
                                                      Sanitize(found[1])]]

\* get_current_user, main.py 118-131: the outcome and the user collection it leaves
get_current_user(authorization, coll, t) ==
    IF authorization = None \/ authorization[1] = <<>>
        THEN [status |-> 401, detail |-> "Missing Authorization header", user |-> None, coll |-> coll]
    ELSE LET parts == Partition(authorization[1])
             dec == decode_token(parts.token, t)
         IN  IF Lower(parts.scheme) # Bearer \/ parts.token = <<>>
                 THEN [status |-> 401, detail |-> "Invalid auth header", user |-> None, coll |-> coll]
             ELSE IF dec.status # 200
                 THEN [status |-> dec.status, detail |-> dec.detail, user |-> None, coll |-> coll]
             ELSE LET found == FindOne(coll, dec.payload[1].sub)
                  IN  IF found = None
                          THEN [status |-> 401, detail |-> "User not found", user |-> None, coll |-> coll]
                      ELSE [status |-> 200, detail |-> "", user |-> Some(Sanitize(found[1])), coll |-> coll]

----------------------------------------------------------------------------
(* Requests and responses *)

\* the response of a request, with the time it was answered (at), what the
\* request carried (req) and the user the session resolver handed to the handler
Resp(op, status, detail, req, token, u, body) ==
    [op |-> op, status |-> status, detail |-> detail, at |-> now, req |-> req,
     token |-> token, user |-> u, body |-> body]

NoResp == [op |-> "none", status |-> 0, detail |-> "", at |-> 0, req |-> None,
           token |-> None, user |-> None, body |-> <<>>]

Procs == 1..NumProcs

InFlight == Cardinality({ p \in Procs : pending[p] # None })

Init ==
    /\ user = <<>>
    /\ productlisting = <<>>
    /\ buyerrequirement = <<>>
    /\ investmentproject = <<>>
    /\ transaction = <<>>
    /\ joblisting = <<>>
    /\ jobapplication = <<>>
    /\ now = 0
    /\ pending = [p \in Procs |-> None]
    /\ resp = NoResp

----------------------------------------------------------------------------
(* Authentication *)

SignupRequests(emails, roles, passwords) ==
    [name : {"n"}, email : emails, password : passwords, role : roles]

signup_email_raw(payload) == payload.email

\* email = payload.email.lower(), main.py 187
signup_email(payload) == Lower(payload.email)

\* signup, main.py 187-190: lower-case the email, look it up, reject a duplicate
SignupFind(p, payload) ==
    /\ pending[p] = None
    /\ LET email == signup_email(payload)
           existing == FindOne(user, email)
       IN  IF existing # None
               THEN /\ resp' = Resp("signup", 400, "Email already registered",
                                    Some(payload), None, None, <<>>)
                    /\ UNCHANGED pending
           ELSE /\ Len(user) + InFlight < MaxUsers
                /\ pending' = [pending EXCEPT ![p] = Some([payload |-> payload, email |-> email])]
                /\ UNCHANGED resp
    /\ UNCHANGED <<store, now>>

\* the document signup builds, main.py 191-202
user_doc(payload, email, t) ==
    [_id |-> None,
     name |-> payload.name,
     email |-> email,
     phone |-> None,
     role |-> payload.role,
     password_hash |-> Some(hash_password(payload.password)),
     kyc_status |-> "pending",
     company_id |-> None,
     is_active |-> TRUE,
     created_at |-> t,
     updated_at |-> t]

\* signup, main.py 191-208: insert the document, issue the token, answer
SignupInsert(p) ==
    /\ pending[p] # None
    /\ LET payload == pending[p][1].payload
           email == pending[p][1].email
           after == InsertOne(user, user_doc(payload, email, now))
           token == create_token([sub |-> email, role |-> payload.role], now)
       IN  /\ user' = after
           /\ resp' = Resp("signup", 200, "", Some(payload), Some(token),
                           Some(Sanitize(after[Len(after)])), <<>>)
    /\ pending' = [pending EXCEPT ![p] = None]
    /\ UNCHANGED <<productlisting, buyerrequirement, investmentproject,
                   transaction, joblisting, jobapplication, now>>

LoginRequests(emails, passwords) == [email : emails, password : passwords]

login_outcome_active_first(payload, coll, t) ==
    LET email == Lower(payload.email)
        found == FindOne(coll, email)
    IN  IF found # None /\ ~found[1].is_active
            THEN [status |-> 403, detail |-> "User deactivated", token |-> None, user |-> None]
        ELSE IF found = None \/ ~verify_password(payload.password, found[1].password_hash[1])
            THEN [status |-> 401, detail |-> "Invalid credentials", token |-> None, user |-> None]
        ELSE [status |-> 200, detail |-> "",
              token |-> Some(create_token([sub |-> email, role |-> found[1].role], t)),
              user |-> Some(Sanitize(found[1]))]

\* login, main.py 213-222: what it answers for a body, given the user collection
login_outcome(payload, coll, t) ==
    LET email == Lower(payload.email)
        found == FindOne(coll, email)
    IN  IF found = None \/ ~verify_password(payload.password, found[1].password_hash[1])
            THEN [status |-> 401, detail |-> "Invalid credentials", token |-> None, user |-> None]
        ELSE IF ~found[1].is_active
            THEN [status |-> 403, detail |-> "User deactivated", token |-> None, user |-> None]
        ELSE [status |-> 200, detail |-> "",
              token |-> Some(create_token([sub |-> email, role |-> found[1].role], t)),
              user |-> Some(Sanitize(found[1]))]

\* POST /auth/login, main.py 211-222
Login(payload) ==
    /\ LET o == login_outcome(payload, user, now)
       IN  resp' = Resp("login", o.status, o.detail, Some(payload), o.token, o.user, <<>>)
    /\ UNCHANGED <<store, now, pending>>

----------------------------------------------------------------------------
(* Authorization headers a request may carry *)

Headers(schemes, tokens) ==
    {None, Some(<<>>)} \cup { Some(<<s>>) : s \in schemes }
        \cup { Some(<<s, k>>) : s \in schemes, k \in tokens }

\* the token signup returned for each user record: a record is written once, by
\* signup, with the email and role its token carries, at created_at
SignupTokens ==
    { create_token([sub |-> user[i].email, role |-> user[i].role], user[i].created_at) :
        i \in 1..Len(user) }

\* the token the latest response carried
LastToken == IF resp.token = None THEN {} ELSE {resp.token[1]}

\* tokens not issued by this process: signed with another key, or with the
\* (default, published) secret by someone else
ForeignTokens(emails, roles, exps) ==
    { Encode([sub |-> e, role |-> r, exp |-> x], k) :
        e \in emails, r \in roles, x \in exps, k \in {JWT_SECRET, OtherSecret} }

\* GET /auth/me, main.py 225-227
Me(authorization) ==
    /\ LET r == get_current_user(authorization, user, now)
       IN  /\ user' = r.coll
           /\ resp' = Resp("me", r.status, r.detail, Some(authorization), None, r.user, <<>>)
    /\ UNCHANGED <<productlisting, buyerrequirement, investmentproject,
                   transaction, joblisting, jobapplication, now, pending>>

----------------------------------------------------------------------------
(* Document helpers (database.py) *)

DocCount ==
    Len(productlisting) + Len(buyerrequirement) + Len(investmentproject)
        + Len(transaction) + Len(joblisting) + Len(jobapplication)

\* create_document(collection, doc): insert, return the new id as a string
create_document(coll, doc) ==
    [coll |-> Append(coll, [doc EXCEPT !._id = ObjectId(Len(coll) + 1)]),
     id |-> Str(ObjectId(Len(coll) + 1))]

Matches(d, filter) == \A k \in DOMAIN filter : k \in DOMAIN d /\ d[k] = filter[k]

\* get_documents(collection, filter): the documents the filter matches
get_documents(coll, filter) == SelectSeq(coll, LAMBDA d : Matches(d, filter))

\* d["_id"] = str(d["_id"]) over a result list
RECURSIVE StrIds(_)
StrIds(docs) ==
    IF docs = <<>> THEN <<>>
    ELSE <<[Head(docs) EXCEPT !._id = Str(Head(docs)._id)]>> \o StrIds(Tail(docs))

\* the answer of an endpoint whose resolver or role check refused the request
Refused(op, authorization, r, detail) ==
    IF r.status # 200 THEN Resp(op, r.status, r.detail, Some(authorization), None, None, <<>>)
    ELSE Resp(op, 403, detail, Some(authorization), None, r.user, <<>>)

----------------------------------------------------------------------------
(* Role checks of the endpoints *)

create_product_role(role) == role = "vendor"
my_products_role(role) == role = "vendor"
create_requirement_role(role) == role = "buyer"
my_requirements_role(role) == role = "buyer"
create_project_role(role) == role \in {"vendor", "admin"}
invest_role(role) == role = "investor"
create_job_role(role) == role \in {"vendor", "admin"}
apply_job_role_employee_only(role) == role = "employee"
apply_job_role(role) == role \in {"employee", "admin"}
admin_overview_role(role) == role = "admin"

----------------------------------------------------------------------------
(* Vendor endpoints *)

\* ProductPayload(**body).dict(): the declared fields only; a vendor_id key of
\* the body is not one of them
ProductPayload(body) == [title |-> body.title]

product_doc_from_body(body, caller) ==
    [_id |-> None, title |-> body.title, vendor_id |-> body.vendor_id]

\* the document create_product stores, main.py 235-236
product_doc(body, caller) ==
    [_id |-> None, title |-> ProductPayload(body).title, vendor_id |-> caller._id]

\* POST /vendor/products, main.py 231-238
CreateProduct(authorization, body) ==
    /\ LET r == get_current_user(authorization, user, now)
       IN  /\ user' = r.coll
           /\ IF r.status # 200 \/ ~create_product_role(r.user[1].role)
                  THEN /\ resp' = Refused("create_product", authorization, r, "Only vendors can create products")
                       /\ UNCHANGED productlisting
              ELSE LET made == create_document(productlisting, product_doc(body, r.user[1]))
                   IN  /\ DocCount < MaxDocs
                       /\ productlisting' = made.coll
                       /\ resp' = Resp("create_product", 200, "Product listed", Some(authorization), None,
                                       r.user, <<made.id>>)
    /\ UNCHANGED <<buyerrequirement, investmentproject, transaction, joblisting,
                   jobapplication, now, pending>>

\* GET /vendor/products, main.py 241-248
MyProducts(authorization) ==
    /\ LET r == get_current_user(authorization, user, now)
       IN  /\ user' = r.coll
           /\ IF r.status # 200 \/ ~my_products_role(r.user[1].role)
                  THEN resp' = Refused("my_products", authorization, r, "Only vendors can view this")
              ELSE resp' = Resp("my_products", 200, "", Some(authorization), None, r.user,
                                StrIds(get_documents(productlisting, [vendor_id |-> r.user[1]._id])))
    /\ UNCHANGED <<productlisting, buyerrequirement, investmentproject, transaction,
                   joblisting, jobapplication, now, pending>>

----------------------------------------------------------------------------
(* Buyer endpoints *)

RequirementPayload(body) == [title |-> body.title]

\* the document create_requirement stores, main.py 256-257
requirement_doc(body, caller) ==
    [_id |-> None, title |-> RequirementPayload(body).title, buyer_id |-> caller._id,
     status |-> "submitted"]

\* POST /buyer/requirements, main.py 252-259
CreateRequirement(authorization, body) ==
    /\ LET r == get_current_user(authorization, user, now)
       IN  /\ user' = r.coll
           /\ IF r.status # 200 \/ ~create_requirement_role(r.user[1].role)
                  THEN /\ resp' = Refused("create_requirement", authorization, r, "Only buyers can post requirements")
                       /\ UNCHANGED buyerrequirement
              ELSE LET made == create_document(buyerrequirement, requirement_doc(body, r.user[1]))
                   IN  /\ DocCount < MaxDocs
                       /\ buyerrequirement' = made.coll
                       /\ resp' = Resp("create_requirement", 200, "Requirement posted", Some(authorization), None,
                                       r.user, <<made.id>>)
    /\ UNCHANGED <<productlisting, investmentproject, transaction, joblisting,
                   jobapplication, now, pending>>

\* GET /buyer/requirements, main.py 262-269
MyRequirements(authorization) ==
    /\ LET r == get_current_user(authorization, user, now)
       IN  /\ user' = r.coll
           /\ IF r.status # 200 \/ ~my_requirements_role(r.user[1].role)
                  THEN resp' = Refused("my_requirements", authorization, r, "Only buyers can view this")
              ELSE resp' = Resp("my_requirements", 200, "", Some(authorization), None, r.user,
                                StrIds(get_documents(buyerrequirement, [buyer_id |-> r.user[1]._id])))
    /\ UNCHANGED <<productlisting, buyerrequirement, investmentproject, transaction,
                   joblisting, jobapplication, now, pending>>

----------------------------------------------------------------------------
(* Investor endpoints *)

\* POST /investor/projects, main.py 273-280
CreateProject(authorization, body) ==
    /\ LET r == get_current_user(authorization, user, now)
       IN  /\ user' = r.coll
           /\ IF r.status # 200 \/ ~create_project_role(r.user[1].role)
                  THEN /\ resp' = Refused("create_project", authorization, r, "Only vendors or admins can create projects")
                       /\ UNCHANGED investmentproject
              ELSE LET made == create_document(investmentproject,
                                   [_id |-> None, title |-> body.title, owner_vendor_id |-> r.user[1]._id])
                   IN  /\ DocCount < MaxDocs
                       /\ investmentproject' = made.coll
                       /\ resp' = Resp("create_project", 200, "Project created", Some(authorization), None,
                                       r.user, <<made.id>>)
    /\ UNCHANGED <<productlisting, buyerrequirement, transaction, joblisting,
                   jobapplication, now, pending>>

\* GET /investor/projects, main.py 283-288: no dependency on get_current_user
ListProjects(authorization) ==
    /\ resp' = Resp("list_projects", 200, "", Some(authorization), None, None,
                    StrIds(get_documents(investmentproject, <<>>)))
    /\ UNCHANGED <<store, now, pending>>

\* POST /investor/invest, main.py 291-302
Invest(authorization, body) ==
    /\ LET r == get_current_user(authorization, user, now)
       IN  /\ user' = r.coll
           /\ IF r.status # 200 \/ ~invest_role(r.user[1].role)
                  THEN /\ resp' = Refused("invest", authorization, r, "Only investors can invest")
                       /\ UNCHANGED transaction
              ELSE LET made == create_document(transaction,
                                   [_id |-> None, investor_id |-> r.user[1]._id,
                                    project_id |-> body.project_id, amount |-> body.amount,
                                    status |-> "initiated"])
                   IN  /\ DocCount < MaxDocs
                       /\ transaction' = made.coll
                       /\ resp' = Resp("invest", 200, "Investment initiated", Some(authorization), None,
                                       r.user, <<made.id>>)
    /\ UNCHANGED <<productlisting, buyerrequirement, investmentproject, joblisting,
                   jobapplication, now, pending>>

----------------------------------------------------------------------------
(* Jobs endpoints *)

\* POST /job/listings, main.py 306-312
CreateJob(authorization, body) ==
    /\ LET r == get_current_user(authorization, user, now)
       IN  /\ user' = r.coll
           /\ IF r.status # 200 \/ ~create_job_role(r.user[1].role)
                  THEN /\ resp' = Refused("create_job", authorization, r, "Only vendors/admins can post jobs")
                       /\ UNCHANGED joblisting
              ELSE LET made == create_document(joblisting, [_id |-> None, title |-> body.title])
                   IN  /\ DocCount < MaxDocs
                       /\ joblisting' = made.coll
                       /\ resp' = Resp("create_job", 200, "Job posted", Some(authorization), None,
                                       r.user, <<made.id>>)
    /\ UNCHANGED <<productlisting, buyerrequirement, investmentproject, transaction,
                   jobapplication, now, pending>>

\* GET /job/listings, main.py 315-320: no dependency on get_current_user
ListJobs(authorization) ==
    /\ resp' = Resp("list_jobs", 200, "", Some(authorization), None, None,
                    StrIds(get_documents(joblisting, <<>>)))
    /\ UNCHANGED <<store, now, pending>>

\* POST /job/apply, main.py 323-329
ApplyJob(authorization, body) ==
    /\ LET r == get_current_user(authorization, user, now)
       IN  /\ user' = r.coll
           /\ IF r.status # 200 \/ ~apply_job_role(r.user[1].role)
                  THEN /\ resp' = Refused("apply_job", authorization, r, "Only employees/admins can apply")
                       /\ UNCHANGED jobapplication
              ELSE LET made == create_document(jobapplication,
                                   [_id |-> None, job_id |-> body.job_id, user_id |-> r.user[1]._id,
                                    status |-> "applied", resume_url |-> None])
                   IN  /\ DocCount < MaxDocs
                       /\ jobapplication' = made.coll
                       /\ resp' = Resp("apply_job", 200, "Application submitted", Some(authorization), None,
                                       r.user, <<made.id>>)
    /\ UNCHANGED <<productlisting, buyerrequirement, investmentproject, transaction,
                   joblisting, now, pending>>

----------------------------------------------------------------------------
(* Admin *)

\* GET /admin/overview, main.py 333-350
AdminOverview(authorization) ==
    /\ LET r == get_current_user(authorization, user, now)
       IN  /\ user' = r.coll
           /\ IF r.status # 200 \/ ~admin_overview_role(r.user[1].role)
                  THEN resp' = Refused("admin_overview", authorization, r, "Admin only")
              ELSE resp' = Resp("admin_overview", 200, "", Some(authorization), None, r.user,
                                <<[users |-> Len(user),
                                   products |-> Len(productlisting),
                                   requirements |-> Len(buyerrequirement),
                                   projects |-> Len(investmentproject),
                                   transactions |-> Len(transaction),
                                   jobs |-> Len(joblisting),
                                   applications |-> Len(jobapplication)]>>)
    /\ UNCHANGED <<productlisting, buyerrequirement, investmentproject, transaction,
                   joblisting, jobapplication, now, pending>>

----------------------------------------------------------------------------
(* Environment *)

\* the clock is observed every half token lifetime
Tick ==
    /\ now < MaxTicks * (EXPIRES_MINUTES \div 2)
    /\ now' = now + (EXPIRES_MINUTES \div 2)
    /\ UNCHANGED <<store, pending, resp>>

\* an operator deactivates an account directly in the store; no request is answered
Deactivate(i) ==
    /\ i \in 1..Len(user)
    /\ user[i].is_active
    /\ user' = [user EXCEPT ![i].is_active = FALSE]
    /\ resp' = NoResp
    /\ UNCHANGED <<productlisting, buyerrequirement, investmentproject,
                   transaction, joblisting, jobapplication, now, pending>>

----------------------------------------------------------------------------
(* Specifications *)

BearerCap == <<"B", "e", "a", "r", "e", "r">>
EmailA == <<"a", "@", "x">>
EmailB == <<"b", "@", "x">>
Basic == <<"B", "a", "s", "i", "c">>

EmailAUpper == <<"A", "@", "x">>

\* the role-gated endpoints, one signup at a time for an account of any role:
\* callers present the token signup returned, or no token
HeadersRBAC == Headers({BearerCap}, SignupTokens)

Bodies == [title : {"Widget"}, vendor_id : {Str(ObjectId(2))}, buyer_id : {Str(ObjectId(2))},
           project_id : {Str(ObjectId(1))}, amount : {100}, job_id : {Str(ObjectId(1))}]

NextRBAC ==
    \/ \E payload \in SignupRequests({EmailA}, Role, {"pw1"}) : SignupFind(1, payload)
    \/ SignupInsert(1)
    \/ \E payload \in LoginRequests({EmailA}, Passwords) : Login(payload)
    \/ Deactivate(1)
    \/ \E h \in HeadersRBAC : Me(h)
    \/ \E h \in HeadersRBAC, body \in Bodies : CreateProduct(h, body)
    \/ \E h \in HeadersRBAC : MyProducts(h)
    \/ \E h \in HeadersRBAC, body \in Bodies : CreateRequirement(h, body)
    \/ \E h \in HeadersRBAC : MyRequirements(h)
    \/ \E h \in HeadersRBAC, body \in Bodies : CreateProject(h, body)
    \/ \E h \in HeadersRBAC : ListProjects(h)
    \/ \E h \in HeadersRBAC, body \in Bodies : Invest(h, body)
    \/ \E h \in HeadersRBAC, body \in Bodies : CreateJob(h, body)
    \/ \E h \in HeadersRBAC : ListJobs(h)
    \/ \E h \in HeadersRBAC, body \in Bodies : ApplyJob(h, body)
    \/ \E h \in HeadersRBAC : AdminOverview(h)

SpecRBAC == Init /\ [][NextRBAC]_vars

\* ownership of listings: vendors and buyers, signups interleaving
HeadersOwn == { Some(<<BearerCap, k>>) : k \in SignupTokens }

NextOwn ==
    \/ \E p \in Procs, payload \in SignupRequests({EmailA, EmailB}, {"vendor", "buyer"}, {"pw1"}) :
          SignupFind(p, payload)
    \/ \E p \in Procs : SignupInsert(p)
    \/ \E h \in HeadersOwn, body \in Bodies : CreateProduct(h, body)
    \/ \E h \in HeadersOwn : MyProducts(h)
    \/ \E h \in HeadersOwn, body \in Bodies : CreateRequirement(h, body)
    \/ \E h \in HeadersOwn : MyRequirements(h)

SpecOwn == Init /\ [][NextOwn]_vars

\* authentication over time, one signup at a time: signup, login, the resolver,
\* the clock, deactivation
HeadersAuth ==
    Headers({BearerCap, Basic},
            SignupTokens \cup LastToken
                \cup ForeignTokens({EmailB}, {"admin"}, {now, now + 1}))

NextAuth ==
    \/ \E payload \in SignupRequests({EmailA, EmailAUpper}, {"admin", "root"}, {"pw1"}) :
          SignupFind(1, payload)
    \/ SignupInsert(1)
    \/ \E payload \in LoginRequests({EmailAUpper, EmailB}, Passwords) : Login(payload)
    \/ \E h \in HeadersAuth : Me(h)
    \/ \E h \in HeadersAuth : AdminOverview(h)
    \/ Tick
    \/ \E i \in 1..MaxUsers : Deactivate(i)

SpecAuth == Init /\ [][NextAuth]_vars

\* concurrent signups: the lookups and inserts of the requests interleave
NextConc ==
    \/ \E p \in Procs, payload \in SignupRequests({EmailA, EmailAUpper}, {"vendor", "admin"}, {"pw1"}) :
          SignupFind(p, payload)
    \/ \E p \in Procs : SignupInsert(p)
    \/ \E h \in { Some(<<BearerCap, k>>) : k \in SignupTokens \cup LastToken } : Me(h)

SpecConc == Init /\ [][NextConc]_vars

----------------------------------------------------------------------------
(* Properties *)

Range(f) == { f[i] : i \in DOMAIN f }

ProtectedOps == {"create_product", "my_products", "create_requirement", "my_requirements",
                 "create_project", "invest", "create_job", "apply_job", "admin_overview"}

\* the table of the access policy
AllowedRoles(op) ==
    CASE op \in {"create_product", "my_products"} -> {"vendor"}
      [] op \in {"create_requirement", "my_requirements"} -> {"buyer"}
      [] op \in {"create_project", "create_job"} -> {"vendor", "admin"}
      [] op = "invest" -> {"investor"}
      [] op = "apply_job" -> {"employee", "admin"}
      [] op = "admin_overview" -> {"admin"}

C1_Matrix ==
    /\ (resp.op \in ProtectedOps /\ resp.user # None /\ resp.user[1].role \in Role) =>
          IF resp.user[1].role \in AllowedRoles(resp.op)
              THEN resp.status = 200
              ELSE resp.status = 403
    /\ (resp.op \in ProtectedOps /\ resp.status \in {200, 403}) => resp.user # None
    /\ resp.op \in {"list_projects", "list_jobs"} => resp.status = 200

\* C1: an authenticated caller of stored role r gets 200 from a protected
\* endpoint iff r is in the endpoint's allowed set and 403 otherwise, a 403
\* writes nothing, and the two public listings answer 200 to any caller.
C1_RBAC == [](C1_Matrix) /\ [][resp'.status = 403 => store' = store]_vars

C1_Witness ==
    /\ resp.op = "apply_job" /\ resp.status = 200
    /\ resp.user[1].role = "admin"
    /\ Len(jobapplication) = 1

\* C2: the user collection never holds two records whose emails are equal
\* ignoring case.
C2_UniqueEmail ==
    \A i, j \in 1..Len(user) : i # j => Lower(user[i].email) # Lower(user[j].email)

SameEmail(e, f) == Lower(e) = Lower(f)

C3_Rejected ==
    (resp'.op = "signup" /\ resp'.status = 400) =>
        /\ store' = store
        /\ resp'.detail = "Email already registered"
        /\ resp'.token = None
        /\ \E i \in 1..Len(user) : SameEmail(user[i].email, resp'.req[1].email)

C3_Looked ==
    \A p \in Procs :
        (pending[p] = None /\ pending'[p] # None) =>
            /\ \A i \in 1..Len(user) : ~SameEmail(user[i].email, pending'[p][1].payload.email)
            /\ store' = store

C3_Inserted ==
    /\ (Len(user') # Len(user)) =>
          /\ Len(user') = Len(user) + 1
          /\ SubSeq(user', 1, Len(user)) = user
          /\ resp'.op = "signup" /\ resp'.status = 200 /\ resp'.token # None
          /\ LET new == user'[Len(user')]
             IN  /\ new.email = Lower(resp'.req[1].email)
                 /\ new.kyc_status = "pending"
                 /\ new.is_active
                 /\ \E p \in Procs : /\ pending[p] # None /\ pending'[p] = None
                                     /\ pending[p][1].payload = resp'.req[1]
    /\ \A p \in Procs :
          (pending[p] # None /\ pending'[p] = None) => Len(user') = Len(user) + 1

\* C3: a signup whose email, ignoring case, is found in the store when the
\* handler looks it up is answered 400 'Email already registered', inserts
\* nothing and gets no token; any other signup inserts exactly one record with
\* the lower-cased email, kyc_status 'pending', is_active true, and gets a token.
C3_Signup == [][C3_Rejected /\ C3_Looked /\ C3_Inserted]_vars

C3_Witness ==
    /\ resp.op = "signup" /\ resp.status = 400
    /\ resp.req[1].email = EmailAUpper
    /\ Len(user) = 1 /\ user[1].email = EmailA

BearerSpelling(s) ==
    /\ Len(s) = 6
    /\ s[1] \in {"b", "B"} /\ s[2] \in {"e", "E"} /\ s[3] \in {"a", "A"}
    /\ s[4] \in {"r", "R"} /\ s[5] \in {"e", "E"} /\ s[6] \in {"r", "R"}

\* what the resolver may answer for header h, in the order the claim fixes
C4_Ok(h, coll, t, status, detail) ==
    IF h = None \/ h[1] = <<>>
        THEN status = 401 /\ detail = "Missing Authorization header"
    ELSE IF ~BearerSpelling(h[1][1]) \/ Len(h[1]) < 2
        THEN status = 401 /\ detail = "Invalid auth header"
    ELSE IF Len(h[1]) > 2 \/ h[1][2].key # JWT_SECRET
        THEN status = 401 /\ detail = "Invalid token"
    ELSE IF h[1][2].exp < t \/ (h[1][2].exp = t /\ detail = "Token expired")
        THEN status = 401 /\ detail = "Token expired"
    ELSE IF \A i \in 1..Len(coll) : coll[i].email # h[1][2].sub
        THEN status = 401 /\ detail = "User not found"
    ELSE status = 200

C4_Step ==
    /\ (resp' # resp /\ resp'.op = "me") =>
          /\ C4_Ok(resp'.req[1], user, now, resp'.status, resp'.detail)
          /\ resp'.status = 200 =>
                resp'.user # None /\ resp'.user[1].email = resp'.req[1][1][2].sub
          /\ resp'.status # 200 => resp'.user = None
    /\ (resp' # resp /\ resp'.op = "admin_overview") =>
          IF resp'.status \in {200, 403}
              THEN C4_Ok(resp'.req[1], user, now, 200, "")
              ELSE C4_Ok(resp'.req[1], user, now, resp'.status, resp'.detail)

\* C4: the resolver answers 401 in the order missing header, bad scheme or
\* empty token, token rejected by the codec, unknown user, before the handler
\* or its role check runs, and returns the user only when none applies.
C4_ResolverOrder == [][C4_Step]_vars

C4_Witness ==
    /\ resp.op = "me" /\ resp.status = 401 /\ resp.detail = "Token expired"
    /\ Len(resp.req[1][1]) = 2
    /\ \A i \in 1..Len(user) : user[i].email # resp.req[1][1][2].sub

ReturnedTokens == SignupTokens \cup LastToken

C5_State ==
    /\ resp.token # None => resp.token[1].exp = resp.at + 60
    /\ \A k \in ReturnedTokens :
          /\ now < k.exp => decode_token(<<k>>, now).status = 200
          /\ now > k.exp => /\ decode_token(<<k>>, now).status = 401
                            /\ decode_token(<<k>>, now).detail = "Token expired"

C5_Step ==
    \A k \in ReturnedTokens :
        decode_token(<<k>>, now).detail = "Token expired" =>
            decode_token(<<k>>, now').detail = "Token expired"

\* C5: a token issued at t has exp = t + 60 minutes, is accepted at every time
\* before exp and rejected 'Token expired' at every time after it, and once
\* rejected as expired is never accepted later.
C5_Expiry == [](C5_State) /\ [][C5_Step]_vars

C5_Witness ==
    /\ resp.op = "me" /\ resp.status = 401 /\ resp.detail = "Token expired"
    /\ Len(resp.req[1][1]) = 2
    /\ resp.req[1][1][2] \in SignupTokens
    /\ now > resp.req[1][1][2].exp

KnownUsers(email) == { i \in 1..Len(user) : user[i].email = Lower(email) }

C6_State ==
    resp.op = "login" =>
        LET req == resp.req[1]
            known == KnownUsers(req.email)
            good == { i \in known : user[i].password_hash = Some(hash_password(req.password)) }
        IN  /\ (known = {} \/ good = {}) =>
                  resp.status = 401 /\ resp.detail = "Invalid credentials" /\ resp.token = None
            /\ (good # {} /\ \A i \in good : ~user[i].is_active) =>
                  resp.status = 403 /\ resp.detail = "User deactivated" /\ resp.token = None
            /\ (good # {} /\ \A i \in good : user[i].is_active) =>
                  /\ resp.status = 200 /\ resp.token # None
                  /\ resp.token[1].sub = Lower(req.email)
                  /\ \E i \in good : resp.token[1].role = user[i].role

\* C6: login answers 401 'Invalid credentials' for an unknown email or a wrong
\* password whatever the active flag, 403 'User deactivated' without a token for
\* a correct password on an inactive user, a token with sub the lower-cased
\* email and the stored role otherwise, and never writes to the store.
C6_Login == [](C6_State) /\ [][resp'.op = "login" => store' = store]_vars

C6_Witness ==
    /\ resp.op = "login" /\ resp.status = 401
    /\ \E i \in KnownUsers(resp.req[1].email) :
          /\ ~user[i].is_active
          /\ user[i].password_hash # Some(hash_password(resp.req[1].password))

\* C7: the role of every stored user record is one of the five roles.
C7_RolesInEnum == \A i \in 1..Len(user) : user[i].role \in Role

CallerId == resp.user[1]._id

C8_State ==
    /\ (resp.op = "my_products" /\ resp.status = 200) =>
          /\ Len(resp.body) = Cardinality(Range(resp.body))
          /\ Range(resp.body) =
                { [d EXCEPT !._id = Str(d._id)] :
                    d \in { x \in Range(productlisting) : x.vendor_id = CallerId } }
    /\ (resp.op = "my_requirements" /\ resp.status = 200) =>
          /\ Len(resp.body) = Cardinality(Range(resp.body))
          /\ Range(resp.body) =
                { [d EXCEPT !._id = Str(d._id)] :
                    d \in { x \in Range(buyerrequirement) : x.buyer_id = CallerId } }
    /\ \A d \in Range(productlisting) : \E i \in 1..Len(user) : d.vendor_id = Str(user[i]._id)
    /\ \A d \in Range(buyerrequirement) : \E i \in 1..Len(user) : d.buyer_id = Str(user[i]._id)

C8_Step ==
    /\ productlisting' # productlisting =>
          /\ resp'.op = "create_product" /\ resp'.status = 200
          /\ Len(productlisting') = Len(productlisting) + 1
          /\ SubSeq(productlisting', 1, Len(productlisting)) = productlisting
          /\ productlisting'[Len(productlisting')].vendor_id = resp'.user[1]._id
          /\ resp'.user[1].email = resp'.req[1][1][2].sub
    /\ buyerrequirement' # buyerrequirement =>
          /\ resp'.op = "create_requirement" /\ resp'.status = 200
          /\ Len(buyerrequirement') = Len(buyerrequirement) + 1
          /\ SubSeq(buyerrequirement', 1, Len(buyerrequirement)) = buyerrequirement
          /\ buyerrequirement'[Len(buyerrequirement')].buyer_id = resp'.user[1]._id
          /\ resp'.user[1].email = resp'.req[1][1][2].sub

\* C8: list-own-products answers exactly the stored products whose vendor_id is
\* the caller's id, every stored product carries the id of the caller that
\* created it and never the vendor_id of the request body, and the same holds
\* for requirements and buyer_id.
C8_Ownership == [](C8_State) /\ [][C8_Step]_vars

C8_Witness ==
    /\ resp.op = "my_products" /\ resp.status = 200
    /\ Len(resp.body) = 1
    /\ Len(productlisting) = 2
    /\ productlisting[1].vendor_id # productlisting[2].vendor_id

\* headers the resolver is tried on in every state
ProbeHeaders ==
    Headers({BearerCap, Basic},
            SignupTokens \cup ForeignTokens({EmailA, EmailB}, {"admin"}, {now, now + 1}))

C9_State ==
    \A h \in ProbeHeaders :
        LET first == get_current_user(h, user, now)
            again == get_current_user(h, first.coll, now)
        IN  /\ first.coll = user
            /\ again.coll = user
            /\ again.status = first.status
            /\ again.detail = first.detail
            /\ again.user = first.user

C9_Step ==
    /\ resp'.status \in {401, 403} => store' = store
    /\ resp'.op = "me" => store' = store

\* C9: the resolver leaves every collection unchanged on every path, resolving
\* the same token twice answers the same user, and a request answered 401 or
\* 403 leaves the store unchanged.
C9_ReadOnly == [](C9_State) /\ [][C9_Step]_vars

C9_Witness ==
    /\ resp.op = "me" /\ resp.status = 200
    /\ resp.user[1].password_hash = None
    /\ \E i \in 1..Len(user) :
          /\ Str(user[i]._id) = resp.user[1]._id
          /\ user[i].password_hash # None

\* C10: a token returned by signup or login, presented before its expiry,
\* verifies to the lower-cased email of the request and the role it was issued
\* with, and resolves to a user record with that email and that stored role.
C10_TokenBinding ==
    (resp.token # None /\ now < resp.token[1].exp) =>
        LET k == resp.token[1]
            dec == decode_token(<<k>>, now)
            r == get_current_user(Some(<<BearerCap, k>>), user, now)
        IN  /\ dec.status = 200
            /\ dec.payload[1].sub = Lower(resp.req[1].email)
            /\ dec.payload[1].role = resp.user[1].role
            /\ r.status = 200
            /\ r.user[1].email = dec.payload[1].sub
            /\ r.user[1].role = dec.payload[1].role

====
